---- MODULE Spec2Model ----
(***************************************************************************)
(* Model of the worker supervisor of src/bot.py: the BotManager registry   *)
(* (processes, tokens), the snapshot file running_bots.json, the worker    *)
(* processes, the START / STOP / STOP_ALL handlers of main() and the       *)
(* signal-driven shutdown_handler.                                         *)
(*                                                                         *)
(* Worker ids are the seconds of the wall clock ("bot_%Y%m%d_%H%M%S"),     *)
(* credentials (tokens) are small integers, a Python dict is a function    *)
(* whose iteration order is ascending key order: ids are minted from a     *)
(* non-decreasing clock and a snapshot lists them in insertion order, so   *)
(* insertion order and id order coincide.                                  *)
(***************************************************************************)
EXTENDS Integers, Sequences, FiniteSets, TLC

(* ------------------------------ bounds -------------------------------- *)
\* MAX_BOTS is 10 in src/bot.py:30; the model runs the same code with a
\* smaller ceiling so that a full registry is reached.
MAX_BOTS == 2
\* valid credentials are 1..NumTokens; credential 0 is rejected by Telegram
NumTokens == 3
\* the clock advances in ticks; an id keeps only the whole second
TicksPerSecond == 1
MaxNow == 1
\* ids found in a snapshot written by an earlier run: -NumOldIds .. -1
NumOldIds == 2
\* START requests suspended at validate_token at the same time
MaxPending == 2
\* termination signals delivered to the supervisor
MaxSignals == 2
\* failures injected in one run: a start() that raises, a snapshot write
\* that fails, a join(timeout=5) that times out
MaxFaults == 1

Tokens == 0..NumTokens
ValidTokens == 1..NumTokens
OldIds == (0 - NumOldIds)..(0 - 1)
NewIds == 0..(MaxNow \div TicksPerSecond)
Ids == OldIds \cup NewIds

\* outcomes of the getMe call of validate_token
NetOutcomes == {"ok200", "non200", "transport_error"}
\* outcomes of save_bots: written; open() raised (file untouched); open()
\* truncated the file and json.dump / close raised (file torn)
WriteOutcomes == {"ok", "open_error", "torn"}

(* ------------------------------ dicts --------------------------------- *)
EmptyDict == <<>>

With(d, k, v) == [x \in (DOMAIN d) \cup {k} |-> IF x = k THEN v ELSE d[x]]

Without(d, k) == [x \in (DOMAIN d) \ {k} |-> d[x]]

Values(d) == {d[k] : k \in DOMAIN d}

MinOf(S) == CHOOSE x \in S : \A y \in S : x <= y

\* dict.items() / list(dict.keys()): the entries in iteration order
RECURSIVE items(_)
items(d) ==
  IF DOMAIN d = {} THEN <<>>
  ELSE LET k == MinOf(DOMAIN d)
       IN  <<<<k, d[k]>>>> \o items(Without(d, k))

(* --------------------------- snapshot file ---------------------------- *)
\* json.dump({'tokens': tokens}, f): the members of the "tokens" object
json_dump(toks) == [kind |-> "json", members |-> items(toks)]

\* the dict json.load builds from the members of an object (last key wins)
RECURSIVE dict_of(_)
dict_of(members) ==
  IF members = <<>> THEN EmptyDict
  ELSE LET n == Len(members)
       IN  With(dict_of(SubSeq(members, 1, n - 1)), members[n][1], members[n][2])

MissingFile == [kind |-> "missing", members |-> <<>>]
CorruptFile == [kind |-> "corrupt", members |-> <<>>]
NoKeyFile   == [kind |-> "nokey",   members |-> <<>>]
\* valid JSON that is not an object (a list, a string, a number, null)
NotObjectFile == [kind |-> "notobject", members |-> <<>>]
\* a JSON object whose "tokens" member is not an object
BadTokensFile == [kind |-> "badtokens", members |-> <<>>]

\* a JSON value that is not a string, found where a credential is expected
NotACredential == 0 - 1

\* self.tokens bound to a value that is not a dict (data.get('tokens', {})
\* of a BadTokensFile): a one-entry function under a key that is no id;
\* .items() and .values() raise AttributeError on it
NoId == 0 - (MAX_BOTS + NumOldIds + 2)
NotADict == [k \in {NoId} |-> NotACredential]

\* the mapping load_saved_bots reads from the file: data.get('tokens', {})
\* of a JSON object, nothing for a missing or unparsable file
snapshot(f) == IF f.kind = "json" THEN dict_of(f.members) ELSE EmptyDict

\* a save that returns without writing
save_bots_nowrite(toks, f, w) == IF w = "torn" THEN CorruptFile ELSE f

\* save_bots(): open(BOTS_DATA_FILE, 'w'); json.dump; errors are logged
save_bots(toks, f, w) ==
  IF w = "ok" THEN json_dump(toks)
  ELSE IF w = "torn" THEN CorruptFile
  ELSE f

(* ------------------------------ workers ------------------------------- *)
\* BotProcess(token, bot_id) after start()
BotProcess(token, bot_id) == [token |-> token, bot_id |-> bot_id, alive |-> TRUE]

VARIABLES
  phase,        \* "boot" | "running" | "stopping" | "stopped"
  now,          \* the wall clock, in ticks
  file,         \* running_bots.json
  processes,    \* bot_manager.processes: id -> BotProcess
  tokens,       \* bot_manager.tokens: id -> credential
  orphans,      \* whether a worker process is alive that no handle refers to
  pending,      \* credential -> number of START handlers awaiting validate_token
  sigtasks,     \* shutdown_handler tasks created by signals and not yet run
  shutdowns,    \* runs of shutdown_handler so far
  faults,       \* failures the environment has injected so far
  last          \* the last handler that ran: what it answered and logged

vars == <<phase, now, file, processes, tokens, orphans, pending, sigtasks,
          shutdowns, faults, last>>

\* bot_manager together with what it owns outside the interpreter
Manager == [processes |-> processes, tokens |-> tokens, file |-> file,
            orphans |-> orphans]

(* ------------------------------ BotManager ---------------------------- *)
\* a recovery that names the restarted workers with the id format of
\* handle_token instead of their stored ids
load_saved_bots_minting(f, failAt) ==
  IF f.kind # "json"
  THEN [tokens |-> EmptyDict, processes |-> EmptyDict]
  ELSE LET toks    == dict_of(f.members)
           order   == items(toks)
           upto    == IF failAt = 0 THEN Len(order) ELSE failAt - 1
           minted  == IF upto = 0 THEN {} ELSE {0 \div TicksPerSecond}
       IN  [tokens    |-> toks,
            processes |-> [id \in minted |-> BotProcess(order[upto][2], id)]]

\* a recovery that looks for the mapping under a key save_bots does not write
load_saved_bots_other_key(f, failAt) ==
  [tokens |-> EmptyDict, processes |-> EmptyDict]

\* load_saved_bots(): failAt = k > 0 means process.start() raises for the
\* k-th entry of the loop; the except clause around the whole body ends it
load_saved_bots(f, failAt) ==
  IF f.kind = "badtokens"
  THEN [tokens |-> NotADict, processes |-> EmptyDict]
  ELSE IF f.kind # "json"
  THEN [tokens |-> EmptyDict, processes |-> EmptyDict]
  ELSE LET toks    == dict_of(f.members)
           order   == items(toks)
           upto    == IF failAt = 0 THEN Len(order) ELSE failAt - 1
           started == {order[i][1] : i \in 1..upto}
       IN  [tokens    |-> toks,
            processes |-> [id \in started |-> BotProcess(toks[id], id)]]

get_bot_count(m) == Cardinality(DOMAIN m.processes)

\* the check made on the ids instead of the credentials
is_token_used_keys(m, token) == token \in DOMAIN m.tokens

is_token_used(m, token) == token \in Values(m.tokens)

\* self.tokens.values() raises: self.tokens is not a dict
is_token_used_raises(m) == m.tokens = NotADict

\* an add_bot that forgets the worker again when the snapshot write fails
add_bot_rollback(m, bot_id, token, process, w) ==
  LET toks1 == With(m.tokens, bot_id, token)
  IN  IF w = "ok"
      THEN [processes |-> With(m.processes, bot_id, process),
            tokens    |-> toks1,
            file      |-> save_bots(toks1, m.file, w),
            orphans   |-> m.orphans,
            saved     |-> "ok"]
      ELSE [processes |-> m.processes,
            tokens    |-> m.tokens,
            file      |-> save_bots(toks1, m.file, w),
            orphans   |-> m.orphans,
            saved     |-> "error"]

\* add_bot(bot_id, token, process): a handle already stored under bot_id is
\* replaced; its process, if alive, keeps running with no handle left
\* (orphans)
add_bot(m, bot_id, token, process, w) ==
  LET replaced == bot_id \in DOMAIN m.processes /\ m.processes[bot_id].alive
      toks1    == With(m.tokens, bot_id, token)
  IN  [processes |-> With(m.processes, bot_id, process),
       tokens    |-> toks1,
       file      |-> save_bots(toks1, m.file, w),
       orphans   |-> m.orphans \/ replaced,
       saved     |-> IF w = "ok" THEN "ok" ELSE "error"]

\* remove_bot(bot_id): exits says whether a live process has ended when
\* join(timeout=5) returns
remove_bot(m, bot_id, exits, w) ==
  LET tracked    == bot_id \in DOMAIN m.processes
      stillAlive == tracked /\ m.processes[bot_id].alive /\ ~exits
      hasToken   == bot_id \in DOMAIN m.tokens
      toks1      == IF hasToken THEN Without(m.tokens, bot_id) ELSE m.tokens
  IN  [processes |-> IF tracked THEN Without(m.processes, bot_id)
                     ELSE m.processes,
       tokens    |-> toks1,
       file      |-> IF hasToken THEN save_bots(toks1, m.file, w) ELSE m.file,
       orphans   |-> m.orphans \/ stillAlive,
       saved     |-> IF ~hasToken THEN "none"
                     ELSE IF w = "ok" THEN "ok" ELSE "error"]

\* the loop of stop_all_bots over keys, a list of ids; exiting is the set
\* of ids whose process ends within its join, wf[id] the outcome of the
\* save_bots call made for id
RECURSIVE stop_loop(_, _, _, _)
stop_loop(m, keys, exiting, wf) ==
  IF keys = <<>> THEN m
  ELSE LET id == Head(keys)
           r  == remove_bot(m, id, id \in exiting, wf[id])
           m1 == [r EXCEPT !.saved = IF r.saved = "none" THEN m.saved
                                     ELSE r.saved]
       IN  stop_loop(m1, Tail(keys), exiting, wf)

keys_of(d) == [i \in 1..Len(items(d)) |-> items(d)[i][1]]

stop_all_bots(m, exiting, wf) ==
  stop_loop([processes |-> m.processes, tokens |-> m.tokens,
             file |-> m.file, orphans |-> m.orphans, saved |-> "none"],
            keys_of(m.processes), exiting, wf)

(* ------------------------------ handlers ------------------------------ *)
\* validate_token: True only for status 200 and a body with ok = true
validate_token(token, net) == net = "ok200" /\ token \in ValidTokens

\* strftime('%Y%m%d_%H%M%S') of the clock: the whole second
new_bot_id(t) == t \div TicksPerSecond

Unchanged(m, res) ==
  [processes |-> m.processes, tokens |-> m.tokens, file |-> m.file,
   orphans |-> m.orphans, saved |-> "none", res |-> res]

\* handle_token with the capacity check made before the duplicate check
handle_token_capacity_first(m, t, token, net, spawn, w) ==
  IF ~validate_token(token, net) THEN Unchanged(m, "invalid")
  ELSE IF get_bot_count(m) >= MAX_BOTS THEN Unchanged(m, "capacity")
  ELSE IF is_token_used(m, token) THEN Unchanged(m, "duplicate")
  ELSE IF ~spawn THEN Unchanged(m, "spawn_failure")
  ELSE LET id == new_bot_id(t)
           r  == add_bot(m, id, token, BotProcess(token, id), w)
       IN  [processes |-> r.processes, tokens |-> r.tokens, file |-> r.file,
            orphans |-> r.orphans, saved |-> r.saved, res |-> "ok"]

\* handle_token registering the handle before start() is known to succeed
handle_token_register_first(m, t, token, net, spawn, w) ==
  IF ~validate_token(token, net) THEN Unchanged(m, "invalid")
  ELSE IF is_token_used(m, token) THEN Unchanged(m, "duplicate")
  ELSE IF get_bot_count(m) >= MAX_BOTS THEN Unchanged(m, "capacity")
  ELSE LET id == new_bot_id(t)
           r  == add_bot(m, id, token, BotProcess(token, id), w)
       IN  [processes |-> r.processes, tokens |-> r.tokens, file |-> r.file,
            orphans |-> r.orphans, saved |-> r.saved,
            res |-> IF spawn THEN "ok" ELSE "spawn_failure"]

\* handle_token of main() from the return of validate_token on; spawn says
\* whether process.start() succeeds; "error" is an exception that leaves the
\* handler before it has answered
handle_token(m, t, token, net, spawn, w) ==
  IF ~validate_token(token, net) THEN Unchanged(m, "invalid")
  ELSE IF is_token_used_raises(m) THEN Unchanged(m, "error")
  ELSE IF is_token_used(m, token) THEN Unchanged(m, "duplicate")
  ELSE IF get_bot_count(m) >= MAX_BOTS THEN Unchanged(m, "capacity")
  ELSE IF ~spawn THEN Unchanged(m, "spawn_failure")
  ELSE LET id == new_bot_id(t)
           r  == add_bot(m, id, token, BotProcess(token, id), w)
       IN  [processes |-> r.processes, tokens |-> r.tokens, file |-> r.file,
            orphans |-> r.orphans, saved |-> r.saved, res |-> "ok"]

\* stop_specific_bot calling remove_bot before it looks for the handle
stop_specific_bot_unguarded(m, bot_id, exits, w) ==
  LET r == remove_bot(m, bot_id, exits, w)
  IN  [processes |-> r.processes, tokens |-> r.tokens, file |-> r.file,
       orphans |-> r.orphans, saved |-> r.saved,
       res |-> IF bot_id \in DOMAIN m.processes THEN "ok" ELSE "not_found"]

\* stop_specific_bot: remove_bot only for an id with a handle
stop_specific_bot(m, bot_id, exits, w) ==
  IF bot_id \in DOMAIN m.processes
  THEN LET r == remove_bot(m, bot_id, exits, w)
       IN  [processes |-> r.processes, tokens |-> r.tokens, file |-> r.file,
            orphans |-> r.orphans, saved |-> r.saved, res |-> "ok"]
  ELSE Unchanged(m, "not_found")

(* ------------------------------- state -------------------------------- *)
\* what an earlier run of this program whose own recovery started every
\* worker can have left in running_bots.json: at most MAX_BOTS entries and
\* no credential twice. Credentials are interchangeable, so old id -k is
\* given credential k.
WrittenDicts ==
  {[id \in S |-> 0 - id] : S \in {T \in SUBSET OldIds : Cardinality(T) <= MAX_BOTS}}

InitFiles == {MissingFile, CorruptFile, NoKeyFile}
             \cup {json_dump(d) : d \in WrittenDicts}

\* what somebody else can have left in running_bots.json: any object of
\* ids and values, also with more than MAX_BOTS members, with one credential
\* under two ids or with a value that is no credential, or no such object
FileIds == (0 - (MAX_BOTS + 1))..(0 - 1)

FileValues == ValidTokens \cup {NotACredential}

AnyDicts == UNION {[S -> FileValues] : S \in SUBSET FileIds}

AnyFiles == {MissingFile, CorruptFile, NoKeyFile, NotObjectFile, BadTokensFile}
            \cup {json_dump(d) : d \in AnyDicts}

Answer(op, res, saved) == [op |-> op, res |-> res, saved |-> saved]

RECURSIVE Sum(_, _)
Sum(f, S) == IF S = {} THEN 0
             ELSE LET x == MinOf(S) IN f[x] + Sum(f, S \ {x})

Cost(b) == IF b THEN 1 ELSE 0

Init ==
  /\ phase = "boot"
  /\ now = 0
  /\ file \in InitFiles
  /\ processes = EmptyDict
  /\ tokens = EmptyDict
  /\ orphans = FALSE
  /\ pending = [c \in Tokens |-> 0]
  /\ sigtasks = 0
  /\ shutdowns = 0
  /\ faults = 0
  /\ last = Answer("none", "none", "none")

\* the supervisor started for the first time: no running_bots.json yet
InitFresh ==
  /\ phase = "boot"
  /\ now = 0
  /\ file = MissingFile
  /\ processes = EmptyDict
  /\ tokens = EmptyDict
  /\ orphans = FALSE
  /\ pending = [c \in Tokens |-> 0]
  /\ sigtasks = 0
  /\ shutdowns = 0
  /\ faults = 0
  /\ last = Answer("none", "none", "none")

\* the supervisor started on a file it did not write
InitAnyFile ==
  /\ phase = "boot"
  /\ now = 0
  /\ file \in AnyFiles
  /\ processes = EmptyDict
  /\ tokens = EmptyDict
  /\ orphans = FALSE
  /\ pending = [c \in Tokens |-> 0]
  /\ sigtasks = 0
  /\ shutdowns = 0
  /\ faults = 0
  /\ last = Answer("none", "none", "none")

\* bot_manager = BotManager(): __init__ runs load_saved_bots
Recover ==
  /\ phase = "boot"
  /\ \E failAt \in 0..Len(items(snapshot(file))) :
       LET r == load_saved_bots(file, failAt)
       IN  /\ faults + Cost(failAt # 0) <= MaxFaults
           /\ faults' = faults + Cost(failAt # 0)
           /\ tokens' = r.tokens
           /\ processes' = r.processes
           /\ last' = Answer("recover",
                             IF failAt = 0 THEN "ok" ELSE "spawn_failure",
                             "none")
  /\ phase' = "running"
  /\ UNCHANGED <<now, file, orphans, pending, sigtasks, shutdowns>>

Tick ==
  /\ phase \in {"running", "stopping"}
  /\ now < MaxNow
  /\ now' = now + 1
  /\ UNCHANGED <<phase, file, processes, tokens, orphans, pending, sigtasks,
                 shutdowns, faults, last>>

\* handle_token from the return of validate_token to its end, for
\* credential c
\* the outcome of a call that is not reached is not chosen: spawn and w
\* keep their success values
RegisterWith(c, net, spawn, w) ==
  LET r == handle_token(Manager, now, c, net, spawn, w)
      n == Cost(~spawn) + Cost(w # "ok")
  IN  /\ r.res \notin {"ok", "spawn_failure"} => spawn
      /\ r.res # "ok" => w = "ok"
      /\ faults + n <= MaxFaults
      /\ last' = Answer("start", r.res, r.saved)
      /\ faults' = faults + n
      /\ processes' = r.processes
      /\ tokens' = r.tokens
      /\ file' = r.file
      /\ orphans' = r.orphans

Register(c) ==
  \E net \in NetOutcomes, spawn \in BOOLEAN, w \in WriteOutcomes :
    RegisterWith(c, net, spawn, w)

\* a START text is handled with no other handler running in between
HandleToken(c) ==
  /\ phase = "running"
  /\ Register(c)
  /\ UNCHANGED <<phase, now, pending, sigtasks, shutdowns>>

\* a START text arrives: handle_token runs up to await validate_token
StartRequest(c) ==
  /\ phase = "running"
  /\ Sum(pending, Tokens) < MaxPending
  /\ pending' = [pending EXCEPT ![c] = @ + 1]
  /\ UNCHANGED <<phase, now, file, processes, tokens, orphans, sigtasks,
                 shutdowns, faults, last>>

\* a handle_token that goes on after validate_token as if the checks it
\* made before the call still held
StartResumeStale(c) ==
  /\ phase \in {"running", "stopping"}
  /\ pending[c] > 0
  /\ \E net \in NetOutcomes, w \in WriteOutcomes :
       LET id == new_bot_id(now)
           r  == add_bot(Manager, id, c, BotProcess(c, id), w)
       IN  IF validate_token(c, net)
           THEN /\ faults + Cost(w # "ok") <= MaxFaults
                /\ faults' = faults + Cost(w # "ok")
                /\ processes' = r.processes
                /\ tokens' = r.tokens
                /\ file' = r.file
                /\ orphans' = r.orphans
                /\ last' = Answer("start", "ok", r.saved)
           ELSE /\ w = "ok"
                /\ last' = Answer("start", "invalid", "none")
                /\ UNCHANGED <<faults, processes, tokens, file, orphans>>
  /\ pending' = [pending EXCEPT ![c] = @ - 1]
  /\ UNCHANGED <<phase, now, sigtasks, shutdowns>>

\* validate_token returns and handle_token runs to its end
StartResume(c) ==
  /\ phase \in {"running", "stopping"}
  /\ pending[c] > 0
  /\ Register(c)
  /\ pending' = [pending EXCEPT ![c] = @ - 1]
  /\ UNCHANGED <<phase, now, sigtasks, shutdowns>>

\* the stop_<id> callback
StopSpecific(id) ==
  /\ phase = "running"
  /\ \E exits \in BOOLEAN, w \in WriteOutcomes :
       LET r == stop_specific_bot(Manager, id, exits, w)
           n == Cost(~exits) + Cost(w # "ok")
       IN  /\ ~exits => id \in DOMAIN processes /\ processes[id].alive
           /\ w # "ok" => id \in DOMAIN processes /\ id \in DOMAIN tokens
           /\ faults + n <= MaxFaults
           /\ faults' = faults + n
           /\ processes' = r.processes
           /\ tokens' = r.tokens
           /\ file' = r.file
           /\ orphans' = r.orphans
           /\ last' = Answer("stop", r.res, r.saved)
  /\ UNCHANGED <<phase, now, pending, sigtasks, shutdowns>>

\* stop_all_bots() as a step, answered as op
StopAll(op) ==
  \E exiting \in SUBSET DOMAIN processes,
     wf \in [DOMAIN processes -> WriteOutcomes] :
    LET r == stop_all_bots(Manager, exiting, wf)
        n == Cardinality((DOMAIN processes) \ exiting)
             + Cardinality({id \in DOMAIN processes : wf[id] # "ok"})
    IN  /\ \A id \in (DOMAIN processes) \ exiting : processes[id].alive
        /\ \A id \in DOMAIN processes : wf[id] # "ok" => id \in DOMAIN tokens
        /\ faults + n <= MaxFaults
        /\ faults' = faults + n
        /\ processes' = r.processes
        /\ tokens' = r.tokens
        /\ file' = r.file
        /\ orphans' = r.orphans
        /\ last' = Answer(op, "ok", r.saved)

\* the /stop_all command
StopAllCommand ==
  /\ phase = "running"
  /\ StopAll("stop_all")
  /\ UNCHANGED <<phase, now, pending, sigtasks, shutdowns>>

\* a tracked worker process ends on its own (BotProcess.run returns)
WorkerExit(id) ==
  /\ phase # "boot"
  /\ id \in DOMAIN processes
  /\ processes[id].alive
  /\ processes' = [processes EXCEPT ![id].alive = FALSE]
  /\ UNCHANGED <<phase, now, file, tokens, orphans, pending, sigtasks,
                 shutdowns, faults, last>>

\* the last process that was alive when its handle was dropped ends
OrphanExit ==
  /\ orphans
  /\ orphans' = FALSE
  /\ UNCHANGED <<phase, now, file, processes, tokens, pending, sigtasks,
                 shutdowns, faults, last>>

\* SIGINT / SIGTERM: the signal handler creates a shutdown_handler task
Signal ==
  /\ phase \in {"running", "stopping"}
  /\ sigtasks + shutdowns < MaxSignals
  /\ sigtasks' = sigtasks + 1
  /\ UNCHANGED <<phase, now, file, processes, tokens, orphans, pending,
                 shutdowns, faults, last>>

\* a shutdown_handler task runs: stop_all_bots, then stop_polling
ShutdownHandler ==
  /\ phase \in {"running", "stopping"}
  /\ sigtasks > 0
  /\ StopAll("shutdown")
  /\ sigtasks' = sigtasks - 1
  /\ shutdowns' = shutdowns + 1
  /\ phase' = "stopping"
  /\ UNCHANGED <<now, pending>>

\* polling has stopped: main() returns and asyncio.run cancels what is left
MainExit ==
  /\ phase = "stopping"
  /\ phase' = "stopped"
  /\ pending' = [c \in Tokens |-> 0]
  /\ sigtasks' = 0
  /\ UNCHANGED <<now, file, processes, tokens, orphans, shutdowns, faults,
                 last>>

\* the registry driven by one handler at a time
Next ==
  \/ Recover
  \/ Tick
  \/ \E c \in Tokens : HandleToken(c)
  \/ \E id \in Ids : StopSpecific(id)
  \/ StopAllCommand

Spec == Init /\ [][Next]_vars

\* the same with worker processes that end on their own
NextWorkers ==
  \/ Next
  \/ \E id \in Ids : WorkerExit(id)
  \/ OrphanExit

SpecWorkers == Init /\ [][NextWorkers]_vars

\* one handler at a time, started on any file
NextAnyFile ==
  \/ Recover
  \/ Tick
  \/ \E c \in Tokens : HandleToken(c)
  \/ \E id \in Ids \cup FileIds : StopSpecific(id)
  \/ StopAllCommand

SpecAnyFile == InitAnyFile /\ [][NextAnyFile]_vars

\* the same with termination signals
NextShutdown ==
  \/ Next
  \/ Signal
  \/ ShutdownHandler
  \/ MainExit

SpecShutdown == Init /\ [][NextShutdown]_vars

\* START handlers suspended at validate_token while other handlers run,
\* from a first start of the supervisor
NextStarts ==
  \/ Recover
  \/ Tick
  \/ \E c \in Tokens : StartRequest(c)
  \/ \E c \in Tokens : StartResume(c)
  \/ \E id \in Ids : StopSpecific(id)
  \/ StopAllCommand

SpecStarts == InitFresh /\ [][NextStarts]_vars

\* START handlers suspended at validate_token while other handlers and the
\* shutdown run
NextConcurrent ==
  \/ Recover
  \/ Tick
  \/ \E c \in Tokens : StartRequest(c)
  \/ \E c \in Tokens : StartResume(c)
  \/ \E id \in Ids : StopSpecific(id)
  \/ StopAllCommand
  \/ Signal
  \/ ShutdownHandler
  \/ MainExit

SpecConcurrent == Init /\ [][NextConcurrent]_vars

TypeOK ==
  /\ phase \in {"boot", "running", "stopping", "stopped"}
  /\ now \in 0..MaxNow
  /\ DOMAIN processes \subseteq Ids
  /\ DOMAIN tokens \subseteq Ids
  /\ Values(tokens) \subseteq ValidTokens
  /\ orphans \in BOOLEAN
  /\ faults \in 0..MaxFaults
  /\ sigtasks + shutdowns <= MaxSignals
  /\ Sum(pending, Tokens) <= MaxPending

(* ------------------------------- claims ------------------------------- *)
Injective(d) == \A a, b \in DOMAIN d : d[a] = d[b] => a = b

\* C1: after every sequence of START and STOP handlers the registry tracks
\* at most MAX_BOTS workers and no two of its records hold the same
\* credential, in the handles and in the credential map alike.
C1_CapacityAndUniqueness ==
  /\ Cardinality(DOMAIN processes) <= MAX_BOTS
  /\ \A a, b \in DOMAIN processes :
       processes[a].token = processes[b].token => a = b
  /\ Injective(tokens)

\* a full registry built by START handlers alone has just refused another
C1_Witness ==
  /\ last.op = "start"
  /\ last.res = "capacity"
  /\ Cardinality(DOMAIN processes) = MAX_BOTS
  /\ DOMAIN processes \subseteq NewIds

\* C2: a START reports the first failing check in the order validation,
\* duplicate, capacity: invalid if the validator rejects the credential,
\* else duplicate if the registry holds it, else capacity if MAX_BOTS
\* workers are tracked, else it goes on to start the worker.
C2_CheckOrder ==
  [][\A c \in Tokens, net \in NetOutcomes :
       \/ last'.res \in
            IF ~(net = "ok200" /\ c \in ValidTokens) THEN {"invalid"}
            ELSE IF \E id \in DOMAIN tokens : tokens[id] = c
                 THEN {"duplicate"}
            ELSE IF Cardinality(DOMAIN processes) >= MAX_BOTS
                 THEN {"capacity"}
            ELSE {"ok", "spawn_failure"}
       \/ ~(/\ phase = "running"
            /\ last'.op = "start"
            /\ \E spawn \in BOOLEAN, w \in WriteOutcomes :
                 RegisterWith(c, net, spawn, w))]_vars

\* a credential already registered is refused as a duplicate while the
\* registry is full
C2_Witness ==
  /\ last.op = "start"
  /\ last.res = "duplicate"
  /\ Cardinality(DOMAIN processes) = MAX_BOTS
  /\ DOMAIN processes \subseteq NewIds

\* C3: a successful START never mints the id of a tracked record: it adds
\* one record and leaves every record tracked before it in place with its
\* credential.
C3_FreshId ==
  [][\A c \in Tokens :
       (last'.op = "start" /\ last'.res = "ok" /\ HandleToken(c)) =>
         /\ Cardinality(DOMAIN processes') = Cardinality(DOMAIN processes) + 1
         /\ \A id \in DOMAIN processes :
              /\ id \in DOMAIN processes'
              /\ processes'[id].token = processes[id].token]_vars

\* C4: when the removal of a tracked id returns, the worker's process is
\* not left alive without a handle, the record is gone and, the snapshot
\* write having succeeded, the snapshot does not contain the id.
C4_RemoveStopsWorker ==
  [][\A id \in Ids :
       (StopSpecific(id) /\ id \in DOMAIN processes) =>
         /\ id \notin DOMAIN processes'
         /\ orphans' = orphans
         /\ (last'.saved = "ok" => id \notin DOMAIN snapshot(file'))]_vars

\* C5 as claimed: between operations the pairs in memory are the pairs of
\* the snapshot.
C5_MemoryEqualsSnapshot == phase # "boot" => tokens = snapshot(file)

\* C5 as amended: recovery and every operation whose snapshot write succeeds
\* leave the pairs in memory equal to the pairs of the snapshot, and an
\* operation without a failed write keeps them equal.
C5_EqualUnlessWriteFailed ==
  [][(/\ last'.saved # "error"
      /\ \/ phase = "boot"
         \/ last'.saved = "ok"
         \/ tokens = snapshot(file))
     => tokens' = snapshot(file')]_vars

\* a first worker has been added and persisted
C5_Witness ==
  /\ last.op = "start"
  /\ last.res = "ok"
  /\ last.saved = "ok"
  /\ tokens # EmptyDict
  /\ tokens = snapshot(file)

\* C6: a spawn failure during recovery does not end it: every entry of the
\* snapshot but the failing one is tracked afterwards.
C6_RecoverySkipsOnlyFailure ==
  (last.op = "recover" /\ last.res = "spawn_failure") =>
    Cardinality(DOMAIN processes) = Len(file.members) - 1

\* C7: recovery of a valid snapshot in which every start() succeeds tracks
\* one worker per entry, under the entry's id and with its credential.
C7_RecoveryReusesIds ==
  (last.op = "recover" /\ last.res = "ok" /\ file.kind = "json") =>
    /\ DOMAIN processes = {file.members[i][1] : i \in 1..Len(file.members)}
    /\ \A i \in 1..Len(file.members) :
         LET id == file.members[i][1]
         IN  /\ id \in DOMAIN processes
             /\ processes[id].token = file.members[i][2]
             /\ processes[id].bot_id = id
             /\ id \in DOMAIN tokens
             /\ tokens[id] = file.members[i][2]

\* two workers of an earlier run have been restarted
C7_Witness ==
  /\ last.op = "recover"
  /\ last.res = "ok"
  /\ Len(file.members) = 2
  /\ Cardinality(DOMAIN processes) = 2

\* C8: when memory and snapshot agree, a stop_all whose writes succeed
\* leaves no tracked worker and an empty snapshot.
C8_StopAllEmpties ==
  [][(StopAllCommand /\ tokens = snapshot(file) /\ last'.saved # "error") =>
       /\ Cardinality(DOMAIN processes') = 0
       /\ snapshot(file') = EmptyDict]_vars

\* C9: the shutdown sequence runs at most once.
C9_ShutdownOnce == shutdowns <= 1

\* C10: a START that fails (invalid, duplicate, capacity, spawn failure)
\* leaves the registry, the snapshot and the worker processes as they were.
C10_FailedStartChangesNothing ==
  [][\/ UNCHANGED <<processes, tokens, file, orphans>>
     \/ ~(/\ last'.op = "start"
          /\ last'.res # "ok"
          /\ \E c \in Tokens : HandleToken(c))]_vars

\* a start() has failed while another worker was tracked
C10_Witness ==
  /\ last.op = "start"
  /\ last.res = "spawn_failure"
  /\ tokens # EmptyDict

\* C11: a STOP of an id that has no handle answers "not found" and changes
\* nothing: handles, credential map, worker processes and snapshot file are
\* as before.
C11_UnknownIdNotFound ==
  [][\A id \in Ids :
       \/ /\ last'.res = "not_found"
          /\ UNCHANGED <<processes, tokens, file, orphans>>
       \/ ~(/\ id \notin DOMAIN processes
            /\ last'.op = "stop"
            /\ StopSpecific(id))]_vars

\* an id was not found while a worker was tracked and the credential map
\* held an id without a handle
C11_Witness ==
  /\ last.op = "stop"
  /\ last.res = "not_found"
  /\ processes # EmptyDict
  /\ DOMAIN tokens # DOMAIN processes

\* C12: a START with a valid unused credential on a full registry answers
\* "capacity" and leaves the count; a successful STOP lowers the count by
\* one and frees the worker's credential; the START that follows such a STOP
\* of a full registry and succeeds brings the count back to MAX_BOTS.
C12_CapacityScenario ==
  [][/\ \/ /\ last'.res = "capacity"
            /\ Cardinality(DOMAIN processes') = MAX_BOTS
         \/ ~(/\ last'.op = "start"
              /\ Cardinality(DOMAIN processes) = MAX_BOTS
              /\ last'.res \notin {"invalid", "duplicate"}
              /\ \E c \in Tokens : HandleToken(c))
      /\ \A id \in Ids :
           \/ ~(last'.op = "stop" /\ last'.res = "ok" /\ StopSpecific(id))
           \/ /\ Cardinality(DOMAIN processes')
                   = Cardinality(DOMAIN processes) - 1
              /\ ~is_token_used([tokens |-> tokens'], processes[id].token)
      /\ \/ Cardinality(DOMAIN processes') = MAX_BOTS
         \/ ~(/\ last.op = "stop"
              /\ last.res = "ok"
              /\ last'.op = "start"
              /\ last'.res = "ok"
              /\ Cardinality(DOMAIN processes) = MAX_BOTS - 1
              /\ \E c \in Tokens : HandleToken(c))]_vars

\* C13: a START whose snapshot write fails after the worker was spawned
\* still answers success and keeps the worker: its handle is tracked and
\* alive and its credential is in the credential map; the next handler
\* whose snapshot write succeeds leaves a snapshot equal to the credential
\* map, with every worker that is still tracked in it.
C13_WriteFailureKeepsWorker ==
  [][/\ \/ ~(/\ last'.op = "start"
              /\ last'.saved = "error"
              /\ \E c \in Tokens : HandleToken(c))
         \/ LET id == new_bot_id(now)
            IN  /\ last'.res = "ok"
                /\ id \in DOMAIN processes'
                /\ processes'[id].alive
                /\ id \in DOMAIN tokens'
                /\ tokens'[id] = processes'[id].token
                /\ Cardinality(DOMAIN processes')
                     >= Cardinality(DOMAIN processes)
      /\ \/ ~(/\ last.op = "start"
              /\ last.saved = "error"
              /\ last'.saved = "ok")
         \/ /\ snapshot(file') = tokens'
            /\ \A id \in DOMAIN processes' :
                 /\ id \in DOMAIN snapshot(file')
                 /\ snapshot(file')[id] = processes'[id].token]_vars

\* a worker is tracked and alive although the write of its START failed and
\* the snapshot does not hold it
C13_Witness ==
  /\ last.op = "start"
  /\ last.res = "ok"
  /\ last.saved = "error"
  /\ \E id \in DOMAIN processes :
       /\ processes[id].alive
       /\ id \notin DOMAIN snapshot(file)

\* a snapshot file that is missing, unparsable or does not hold an object
\* with an object under "tokens"
Malformed(f) == f.kind # "json"

\* C14: after recovery from a missing, unparsable or wrongly shaped snapshot
\* no worker is tracked, the credential lookup answers "not in use" for
\* every credential without raising, and no later START ends in an
\* exception.
C14_MalformedSnapshotEmptyRegistry ==
  /\ (last.op = "recover" /\ Malformed(file)) =>
       /\ get_bot_count(Manager) = 0
       /\ ~is_token_used_raises(Manager)
       /\ \A c \in Tokens : ~is_token_used(Manager, c)
  /\ ~(last.op = "start" /\ last.res = "error")

C16_SaveLoadRoundTrip ==
  [][last'.saved = "ok" =>
       LET loaded == load_saved_bots(file', 0).tokens
       IN  /\ DOMAIN loaded = DOMAIN tokens'
           /\ \A id \in DOMAIN tokens' : loaded[id] = tokens'[id]]_vars

\* a mapping of two workers has been saved and reads back
C16_Witness ==
  /\ last.saved = "ok"
  /\ Cardinality(DOMAIN tokens) = 2
  /\ load_saved_bots(file, 0).tokens = tokens

\* C17: after recovery from any readable snapshot of ids and credentials at
\* most MAX_BOTS workers are tracked and no two records hold the same
\* credential.
C17_RecoveryKeepsLimits ==
  (/\ last.op = "recover"
   /\ file.kind = "json"
   /\ \A i \in 1..Len(file.members) : file.members[i][2] \in ValidTokens) =>
    /\ get_bot_count(Manager) <= MAX_BOTS
    /\ \A a, b \in DOMAIN processes :
         processes[a].token = processes[b].token => a = b
    /\ Injective(tokens)

\* C18: when the supervisor has stopped after a shutdown during which no
\* start(), join or snapshot write failed, no worker is tracked, none it
\* spawned runs without a handle, the credential map is empty and the
\* snapshot is empty, whatever START handlers were suspended at
\* validate_token when the shutdown began.
C18_NothingLeftAfterShutdown ==
  (phase = "stopped" /\ faults = 0) =>
    /\ processes = EmptyDict
    /\ tokens = EmptyDict
    /\ ~orphans
    /\ snapshot(file) = EmptyDict

\* C19: between handlers the handles and the credential map have the same
\* ids, and a credential is reported in use exactly when a tracked worker
\* holds it.
C19_SameKeySet ==
  phase # "boot" =>
    /\ DOMAIN tokens = DOMAIN processes
    /\ \A c \in Tokens :
         is_token_used(Manager, c)
           <=> \E id \in DOMAIN processes : processes[id].token = c

\* C20: the exit of a worker process changes nothing but its liveness: its
\* handle stays, the count, the credential map and the snapshot are as
\* before and every other handle is unchanged; and the record of a worker
\* that is not alive stays as it is, with its credential in use, through
\* every step that is not a STOP of its id or a STOP_ALL, in a run where no
\* start(), join or snapshot write has failed.
C20_ExitLeavesRegistry ==
  [][\A id \in DOMAIN processes :
       /\ \/ ~WorkerExit(id)
          \/ /\ DOMAIN processes' = DOMAIN processes
             /\ ~processes'[id].alive
             /\ processes'[id].token = processes[id].token
             /\ \A o \in (DOMAIN processes) \ {id} :
                  processes'[o] = processes[o]
             /\ get_bot_count([processes |-> processes']) = get_bot_count(Manager)
             /\ is_token_used([tokens |-> tokens'], processes[id].token)
             /\ UNCHANGED <<tokens, file>>
       /\ \/ processes[id].alive
          \/ faults' # 0
          \/ StopSpecific(id)
          \/ StopAllCommand
          \/ /\ id \in DOMAIN processes'
             /\ processes'[id] = processes[id]
             /\ is_token_used([tokens |-> tokens'], processes[id].token)]_vars

====
